---- MODULE Spec2Model ----
(***************************************************************************)
(* A model of src/lib.rs of p2p-node-stats: the Stats tracker, its two     *)
(* concurrent hash maps from peer id to a window of duration samples, the  *)
(* lossy push, and the report produced by Display.                         *)
(*                                                                         *)
(* Durations are natural numbers of nanoseconds.  A CHashMap is a table of *)
(* buckets with linear probing; every bucket has its own reader-writer     *)
(* lock.  The table is never resized here: it always keeps a free bucket,  *)
(* as the load factor of the real table does.                              *)
(***************************************************************************)
EXTENDS Integers, Sequences, FiniteSets, TLC

\* ------------------------------------------------------------------ bounds
NThreads == 2      \* threads calling add_ping / add_transmission
MaxCalls == 3      \* calls the threads make in all
MaxCallsReport == 2 \* calls the threads make in all while reports run
MaxWindow == 2     \* window_size is drawn from 0..MaxWindow
MaxDur == 2        \* rtt and time are drawn from 1..MaxDur (nanoseconds)
MaxBytes == 2      \* n_bytes is drawn from 0..MaxBytes
MaxPushes == 4      \* pushes on the stand-alone vector
MaxSamples == 3     \* samples handed to the statistics functions
\* One second, in the unit durations are counted in (the resolution of Duration).
Second == 100

Threads == 1..NThreads
Peers == {"2", "3"}
Maps == {"pings_to_peers", "transmissions_rates"}
Durations == 1..MaxDur

None == [some |-> FALSE]
Some(x) == [some |-> TRUE, value |-> x]

Min(a, b) == IF a <= b THEN a ELSE b

\* Buckets of a table: one more than the entries the threads can ever create
\* (every call creates at most one, every thread at most one for a peer).
NBuckets == Min(MaxCalls, NThreads * Cardinality(Peers)) + 1
Slots == 0..(NBuckets - 1)
\* The hash functions a map may draw.  The table is circular, so positions are
\* taken relative to the bucket of peer "2"; the two maps are taken to lay
\* their peers out alike (nothing relates the layout of one map to the other's).
Hashes == {h \in [Peers -> Slots] : h["2"] = 0}

\* ------------------------------------------------------------ push_lossy
\* A faulty eviction: the newest element goes instead of the oldest.
RemoveNewest(self) == SubSeq(self, 1, Len(self) - 1)
\* Vec::remove(0): panics on an empty vector, else drops the oldest element.
remove_first(self) == Tail(self)

\* A faulty condition: off by one.
IsFullStrict(self, window_size) == Len(self) > window_size
\* The condition of push_lossy's if.
is_full(self, window_size) == Len(self) >= window_size

\* A faulty push: at the front.
PushFront(self, element) == <<element>> \o self
\* Vec::push.
push(self, element) == Append(self, element)

\* push_lossy as a whole: the new vector, or a panic that leaves it as it was.
push_lossy(self, element, window_size) ==
    IF is_full(self, window_size)
    THEN IF self = <<>>
         THEN [panic |-> TRUE, vec |-> self]
         ELSE [panic |-> FALSE, vec |-> push(remove_first(self), element)]
    ELSE [panic |-> FALSE, vec |-> push(self, element)]

\* ------------------------------------------------------------------ state
VARIABLES
    window_size,  \* Stats.window_size
    hash,         \* hash[p]: the bucket where peer p's probe sequence starts
    maps,         \* maps[m][i]: bucket i of CHashMap m
    len,          \* len[m]: CHashMap.len()
    pc,           \* pc[t]: where thread t is in its call
    arg,          \* arg[t]: the arguments of thread t's call
    slot,         \* slot[t]: the bucket whose write guard thread t holds
    budget,       \* calls the threads may still start
    started,      \* started[m][p]: calls started for peer p on map m
    sent,         \* sent[m][p]: the samples those calls were to record
    rpc,          \* where the reporting thread is in Display::fmt
    rpos,         \* the next bucket the clone reads
    snap,         \* snap[m]: the entries cloned so far
    output,       \* the report written by fmt
    vector,       \* a stand-alone Vec for push_lossy
    capacity,     \* its window_size
    pushed,       \* every element pushed on it so far
    \* the statistics functions, called on a sample sequence of their own
    samples,      \* the argument `durations`
    measured,     \* what durations_mean, _std_dev and _error_with_ci returned
    \* history of the reports
    reported      \* per map and peer, the longest buffer the last report showed

vars == <<window_size, hash, maps, len, pc, arg, slot, budget, started, sent,
          rpc, rpos, snap, output, vector, capacity, pushed, samples, measured,
          reported>>
statsVars == <<window_size, hash, maps, len, pc, arg, slot, budget, started, sent,
               rpc, rpos, snap, output>>
vecVars == <<vector, capacity, pushed, samples, measured>>
\* What no call of a thread touches.
sideVars == <<vector, capacity, pushed, samples, measured, reported>>

Empty == [occupied |-> FALSE, key |-> "", val |-> <<>>]
Contains(k, v) == [occupied |-> TRUE, key |-> k, val |-> v]
NoArg == [map |-> "pings_to_peers", peer_id |-> "2", time |-> 1, n_bytes |-> 1]

\* CHashMap::new(): a table of empty buckets.
NewMap == [i \in Slots |-> Empty]

\* ---------------------------------------------------------------- CHashMap
\* The i-th bucket of key's probe sequence (linear probing from its hash).
Probe(m, key, i) == (hash[key] + i) % NBuckets

\* A thread holds the write guard of bucket i of map m.
WriteLocked(m, i) ==
    \E t \in Threads : pc[t] \in {"locked", "evicted"} /\ arg[t].map = m /\ slot[t] = i

\* Table::scan / scan_mut: walk the probe sequence, locking one bucket at a
\* time, up to the first bucket that holds key or is empty.
ScanLen(m, key) ==
    CHOOSE i \in Slots :
        /\ (~maps[m][Probe(m, key, i)].occupied \/ maps[m][Probe(m, key, i)].key = key)
        /\ \A j \in 0..(i - 1) :
              maps[m][Probe(m, key, j)].occupied /\ maps[m][Probe(m, key, j)].key # key
\* A faulty scan: the key's first bucket, whoever holds it.
ScanSlotUnprobed(m, key) == Probe(m, key, 0)
ScanSlot(m, key) == Probe(m, key, ScanLen(m, key))
ScanPath(m, key) == {Probe(m, key, j) : j \in 0..ScanLen(m, key)}

\* Table::find_free: walk the probe sequence, write-locking one bucket at a
\* time, up to the first empty bucket.
FreeLen(m, key) ==
    CHOOSE i \in Slots :
        /\ ~maps[m][Probe(m, key, i)].occupied
        /\ \A j \in 0..(i - 1) : maps[m][Probe(m, key, j)].occupied
FreeSlot(m, key) == Probe(m, key, FreeLen(m, key))
FreePath(m, key) == {Probe(m, key, j) : j \in 0..FreeLen(m, key)}

\* A faulty lock: one lock for the whole map.
UnlockedMap(m, path) == path # {} /\ \A i \in Slots : ~WriteLocked(m, i)
\* A walk over these buckets has to wait while one of them is write-locked.
Unlocked(m, path) == \A i \in path : ~WriteLocked(m, i)

\* CHashMap::contains_key.
contains_key(m, key) == maps[m][ScanSlot(m, key)].occupied

\* CHashMap::get: the value of the first bucket holding key.
get(m, key) ==
    IF contains_key(m, key) THEN Some(maps[m][ScanSlot(m, key)].val) ELSE None

\* The buckets holding key, and the keys of the map.
Entries(m, key) == {i \in Slots : maps[m][i].occupied /\ maps[m][i].key = key}
Keys(m) == {maps[m][i].key : i \in {j \in Slots : maps[m][j].occupied}}

\* ------------------------------------------------------------------- Stats
\* Stats::new, with the hash function the maps draw, before
\* any call; calls_allowed bounds the calls of the run.
StatsNew(calls_allowed) ==
    /\ window_size \in 0..MaxWindow
    /\ hash \in Hashes
    /\ maps = [m \in Maps |-> NewMap]
    /\ len = [m \in Maps |-> 0]
    /\ pc = [t \in Threads |-> "idle"]
    /\ arg = [t \in Threads |-> NoArg]
    /\ slot = [t \in Threads |-> 0]
    /\ budget = calls_allowed
    /\ started = [m \in Maps |-> [p \in Peers |-> 0]]
    /\ sent = [m \in Maps |-> [p \in Peers |-> {}]]
    /\ rpc = "idle"
    /\ rpos = 0
    /\ snap = [m \in Maps |-> <<>>]
    /\ output = None
    /\ vector = <<>>
    /\ pushed = <<>>
    /\ measured = None
    /\ reported = [m \in Maps |-> [p \in Peers |-> 0]]

\* The first statement of add_ping / add_transmission: contains_key.
Enter(t, a) ==
    /\ pc[t] = "idle"
    /\ budget > 0
    /\ Unlocked(a.map, ScanPath(a.map, a.peer_id))
    /\ arg' = [arg EXCEPT ![t] = a]
    /\ budget' = budget - 1
    /\ started' = [started EXCEPT ![a.map][a.peer_id] = @ + 1]
    /\ pc' = [pc EXCEPT ![t] =
                IF contains_key(a.map, a.peer_id) THEN "get_mut" ELSE "insert_new"]
    /\ UNCHANGED <<window_size, hash, maps, len, slot, rpc, rpos, snap, output>>
    /\ UNCHANGED sideVars

add_ping(t) ==
    \E peer_id \in Peers, rtt \in Durations :
        /\ Enter(t, [map |-> "pings_to_peers", peer_id |-> peer_id,
                     time |-> rtt, n_bytes |-> 1])
        /\ sent' = [sent EXCEPT !["pings_to_peers"][peer_id] = @ \cup {rtt}]

add_transmission(t) ==
    \E peer_id \in Peers, time \in Durations, n_bytes \in 0..MaxBytes :
        /\ Enter(t, [map |-> "transmissions_rates", peer_id |-> peer_id,
                     time |-> time, n_bytes |-> n_bytes])
        /\ sent' = [sent EXCEPT !["transmissions_rates"][peer_id] =
                      IF n_bytes = 0 THEN @ ELSE @ \cup {time \div n_bytes}]

\* A faulty insert: into the key's first bucket, whatever it holds.
InsertNewOverwrites(m, key) ==
    [maps EXCEPT ![m][hash[key]] = Contains(key, <<>>)]

\* CHashMap::insert_new: put (key, Vec::new()) in the first free bucket of the
\* key's probe sequence, whether or not the key is already there.
insert_new(m, key) ==
    [maps EXCEPT ![m][FreeSlot(m, key)] = Contains(key, <<>>)]

InsertNew(t) ==
    /\ pc[t] = "insert_new"
    /\ Unlocked(arg[t].map, FreePath(arg[t].map, arg[t].peer_id))
    /\ maps' = insert_new(arg[t].map, arg[t].peer_id)
    /\ len' = [len EXCEPT ![arg[t].map] = @ + 1]
    /\ pc' = [pc EXCEPT ![t] = "get_mut"]
    /\ UNCHANGED <<window_size, hash, arg, slot, budget, started, sent,
                   rpc, rpos, snap, output>>
    /\ UNCHANGED sideVars

\* insert_new in a build with debug assertions: its debug_assert! panics when
\* the key is there by now.
InsertNewAssertFails(t) ==
    /\ pc[t] = "insert_new"
    /\ Unlocked(arg[t].map, ScanPath(arg[t].map, arg[t].peer_id))
    /\ contains_key(arg[t].map, arg[t].peer_id)
    /\ pc' = [pc EXCEPT ![t] = "panicked_insert_new"]
    /\ arg' = [arg EXCEPT ![t] = NoArg]
    /\ slot' = [slot EXCEPT ![t] = 0]
    /\ UNCHANGED <<window_size, hash, maps, len, budget, started, sent,
                   rpc, rpos, snap, output>>
    /\ UNCHANGED sideVars

\* get_mut(&peer_id).expect(..): the write guard of the first bucket holding
\* the key.
GetMut(t) ==
    /\ pc[t] = "get_mut"
    /\ Unlocked(arg[t].map, ScanPath(arg[t].map, arg[t].peer_id))
    /\ contains_key(arg[t].map, arg[t].peer_id)
    /\ slot' = [slot EXCEPT ![t] = ScanSlot(arg[t].map, arg[t].peer_id)]
    /\ pc' = [pc EXCEPT ![t] = "locked"]
    /\ UNCHANGED <<window_size, hash, maps, len, arg, budget, started, sent,
                   rpc, rpos, snap, output>>
    /\ UNCHANGED sideVars

\* A faulty rate: bytes times time.
SampleTimesBytes(a) == IF a.map = "pings_to_peers" THEN a.time ELSE a.time * a.n_bytes
\* The sample a call records: rtt, or time / n_bytes.
Sample(a) == IF a.map = "pings_to_peers" THEN a.time ELSE a.time \div a.n_bytes

\* time / n_bytes with n_bytes = 0 panics, under the guard, which unwinding drops.
DivideByZero(t) ==
    /\ pc[t] = "locked"
    /\ arg[t].map = "transmissions_rates"
    /\ arg[t].n_bytes = 0
    /\ pc' = [pc EXCEPT ![t] = "panicked_division"]
    /\ arg' = [arg EXCEPT ![t] = NoArg]
    /\ slot' = [slot EXCEPT ![t] = 0]
    /\ UNCHANGED <<window_size, hash, maps, len, budget, started, sent,
                   rpc, rpos, snap, output>>
    /\ UNCHANGED sideVars

Guarded(t) == maps[arg[t].map][slot[t]].val
CanPush(t) == arg[t].map = "pings_to_peers" \/ arg[t].n_bytes # 0

\* push_lossy, first half: self.remove(0) when the window is full.
PushLossyRemove(t) ==
    /\ pc[t] = "locked"
    /\ CanPush(t)
    /\ is_full(Guarded(t), window_size)
    /\ Guarded(t) # <<>>
    /\ maps' = [maps EXCEPT ![arg[t].map][slot[t]].val = remove_first(@)]
    /\ pc' = [pc EXCEPT ![t] = "evicted"]
    /\ UNCHANGED <<window_size, hash, len, arg, slot, budget, started, sent,
                   rpc, rpos, snap, output>>
    /\ UNCHANGED sideVars

\* self.remove(0) on an empty vector (window_size = 0) panics.
PushLossyRemovePanics(t) ==
    /\ pc[t] = "locked"
    /\ CanPush(t)
    /\ is_full(Guarded(t), window_size)
    /\ Guarded(t) = <<>>
    /\ pc' = [pc EXCEPT ![t] = "panicked_remove"]
    /\ arg' = [arg EXCEPT ![t] = NoArg]
    /\ slot' = [slot EXCEPT ![t] = 0]
    /\ UNCHANGED <<window_size, hash, maps, len, budget, started, sent,
                   rpc, rpos, snap, output>>
    /\ UNCHANGED sideVars

\* push_lossy, second half: self.push(element); the guard is dropped on return.
PushLossyPush(t) ==
    /\ \/ pc[t] = "locked" /\ CanPush(t) /\ ~is_full(Guarded(t), window_size)
       \/ pc[t] = "evicted"
    /\ maps' = [maps EXCEPT ![arg[t].map][slot[t]].val = push(@, Sample(arg[t]))]
    /\ pc' = [pc EXCEPT ![t] = "idle"]
    /\ arg' = [arg EXCEPT ![t] = NoArg]
    /\ slot' = [slot EXCEPT ![t] = 0]
    /\ UNCHANGED <<window_size, hash, len, budget, started, sent,
                   rpc, rpos, snap, output>>
    /\ UNCHANGED sideVars

\* -------------------------------------------------------------- statistics
RECURSIVE Sum(_)
Sum(durations) == IF durations = <<>> THEN 0 ELSE Head(durations) + Sum(Tail(durations))

RECURSIVE SumSqDev(_, _)
SumSqDev(durations, mean) ==
    IF durations = <<>> THEN 0
    ELSE (Head(durations) - mean) * (Head(durations) - mean)
         + SumSqDev(Tail(durations), mean)

\* The largest r in lo..hi with r * r <= n, by bisection.
RECURSIVE Bisect(_, _, _)
Bisect(n, lo, hi) ==
    IF lo = hi THEN lo
    ELSE LET mid == (lo + hi + 1) \div 2
         IN IF mid * mid <= n THEN Bisect(n, mid, hi) ELSE Bisect(n, lo, mid - 1)
\* The integer square root: f64::sqrt, cut to the duration resolution.
ISqrt(n) == Bisect(n, 0, Min(n, 46340))

\* A faulty mean: the sum over one more than the count.
MeanOverCountPlusOne(durations) ==
    IF durations = <<>> THEN None
    ELSE Some(Sum(durations) \div (Len(durations) + 1))
durations_mean(durations) ==
    IF durations = <<>> THEN None ELSE Some(Sum(durations) \div Len(durations))

\* A faulty deviation: the sample standard deviation (divisor n - 1), which
\* has no value for one sample.
StdDevOfSample(durations) ==
    IF ~durations_mean(durations).some \/ Len(durations) = 1 THEN None
    ELSE Some(ISqrt(SumSqDev(durations, durations_mean(durations).value)
                    \div (Len(durations) - 1)))
\* A faulty deviation: divisor n - 1, and zero for one sample.
StdDevDivisorLessOne(durations) ==
    IF ~durations_mean(durations).some THEN None
    ELSE IF Len(durations) = 1 THEN Some(0)
    ELSE Some(ISqrt(SumSqDev(durations, durations_mean(durations).value)
                    \div (Len(durations) - 1)))
durations_std_dev(durations) ==
    IF ~durations_mean(durations).some THEN None
    ELSE Some(ISqrt(SumSqDev(durations, durations_mean(durations).value)
                    \div Len(durations)))

\* z * std_dev / sqrt(len), z = 1.96 = 49 / 25, as the root of
\* (49 * std_dev)^2 / (25^2 * len).
durations_error_with_ci(durations) ==
    IF ~durations_std_dev(durations).some THEN None
    ELSE Some(ISqrt(((49 * durations_std_dev(durations).value)
                     * (49 * durations_std_dev(durations).value))
                    \div (625 * Len(durations))))

\* ----------------------------------------------------------- Display::fmt
MapOf(phase) == IF phase = "clone_pings" THEN "pings_to_peers" ELSE "transmissions_rates"

\* A faulty clone: it reads a bucket without its lock.
CanReadUnlocked(m, i) == i \in Slots
\* The clone reads a bucket under its read lock.
CanRead(m, i) == ~WriteLocked(m, i)

\* The bucket is between the remove and the push of a push_lossy.
MidPush(m, i) ==
    \E t \in Threads : pc[t] = "evicted" /\ arg[t].map = m /\ slot[t] = i

FmtStart ==
    /\ rpc = "idle"
    /\ rpc' = "clone_pings"
    /\ rpos' = 0
    /\ UNCHANGED <<window_size, hash, maps, len, pc, arg, slot, budget, started, sent,
                   snap, output>>
    /\ UNCHANGED sideVars

\* self.<map>.clone(): Table::clone reads the buckets one after the other.
CloneBucket ==
    /\ rpc \in {"clone_pings", "clone_transmissions"}
    /\ CanRead(MapOf(rpc), rpos)
    /\ snap' = [snap EXCEPT ![MapOf(rpc)] =
                  IF maps[MapOf(rpc)][rpos].occupied
                  THEN Append(@, [peer |-> maps[MapOf(rpc)][rpos].key,
                                  durations |-> maps[MapOf(rpc)][rpos].val,
                                  torn |-> MidPush(MapOf(rpc), rpos)])
                  ELSE @]
    /\ IF rpos < NBuckets - 1
       THEN rpos' = rpos + 1 /\ rpc' = rpc
       ELSE rpos' = 0
            /\ rpc' = IF rpc = "clone_pings" THEN "clone_transmissions" ELSE "write"
    /\ UNCHANGED <<window_size, hash, maps, len, pc, arg, slot, budget, started, sent,
                   output>>
    /\ UNCHANGED sideVars

\* The closure of map(): one piece of text per cloned entry.
NoDataLine(section, e) ==
    [kind |-> "nodata", section |-> section, peer |-> e.peer,
     mean |-> 0, error |-> 0, newline |-> FALSE]
\* A faulty closure: a numeric line whatever the buffer.
LineAlwaysNumeric(section, e) ==
    [kind |-> "numeric", section |-> section, peer |-> e.peer,
     mean |-> Sum(e.durations), error |-> 0, newline |-> TRUE]
Line(section, e) ==
    IF durations_mean(e.durations).some /\ durations_error_with_ci(e.durations).some
    THEN [kind |-> "numeric", section |-> section, peer |-> e.peer,
          mean |-> durations_mean(e.durations).value,
          error |-> durations_error_with_ci(e.durations).value,
          newline |-> TRUE]
    ELSE NoDataLine(section, e)

Lines(section, entries) == [i \in 1..Len(entries) |-> Line(section, entries[i])]

\* The buffer lengths the cloned entries of peer p in map m show.
Shown(m, p) ==
    {Len(snap[m][i].durations) : i \in {j \in 1..Len(snap[m]) : snap[m][j].peer = p}}
Longest(lengths) == CHOOSE x \in lengths : \A y \in lengths : y <= x

\* write!(f, ..): the two sections, in the order of the buckets.
FmtWrite ==
    /\ rpc = "write"
    /\ output' = Some([ping_by_peer |-> Lines("ping", snap["pings_to_peers"]),
                       transmission_rate_by_peer |->
                           Lines("transmission", snap["transmissions_rates"])])
    /\ rpc' = "done"
    /\ reported' = [m \in Maps |-> [p \in Peers |->
                       IF Shown(m, p) = {} THEN reported[m][p] ELSE Longest(Shown(m, p))]]
    /\ UNCHANGED <<window_size, hash, maps, len, pc, arg, slot, budget, started, sent,
                   rpos, snap>>
    /\ UNCHANGED vecVars

\* fmt returns; the clones and the text are dropped.
FmtReturn ==
    /\ rpc = "done"
    /\ rpc' = "idle"
    /\ snap' = [m \in Maps |-> <<>>]
    /\ output' = None
    /\ UNCHANGED <<window_size, hash, maps, len, pc, arg, slot, budget, started, sent,
                   rpos>>
    /\ UNCHANGED sideVars

\* ------------------------------------------------------------ the programs
\* The threads that record, and the thread that reports.
Init == StatsNew(MaxCallsReport) /\ capacity = 0 /\ samples = <<>>

Next ==
    \/ \E t \in Threads :
          \/ add_ping(t)
          \/ add_transmission(t)
          \/ InsertNew(t)
          \/ InsertNewAssertFails(t)
          \/ GetMut(t)
          \/ DivideByZero(t)
          \/ PushLossyRemove(t)
          \/ PushLossyRemovePanics(t)
          \/ PushLossyPush(t)
    \/ FmtStart
    \/ CloneBucket
    \/ FmtWrite
    \/ FmtReturn

Spec == Init /\ [][Next]_vars

\* The threads that record, alone.
RecordInit == StatsNew(MaxCalls) /\ capacity = 0 /\ samples = <<>>

RecordNext ==
    \E t \in Threads :
        \/ add_ping(t)
        \/ add_transmission(t)
        \/ InsertNew(t)
        \/ InsertNewAssertFails(t)
        \/ GetMut(t)
        \/ DivideByZero(t)
        \/ PushLossyRemove(t)
        \/ PushLossyRemovePanics(t)
        \/ PushLossyPush(t)

RecordSpec == RecordInit /\ [][RecordNext]_vars

\* One caller: the calls follow one another.  (insert_new's assertion cannot
\* fail here: the key was missing when contains_key looked, and nobody else
\* inserts.)
SeqNext ==
    \/ add_ping(1)
    \/ add_transmission(1)
    \/ InsertNew(1)
    \/ GetMut(1)
    \/ DivideByZero(1)
    \/ PushLossyRemove(1)
    \/ PushLossyRemovePanics(1)
    \/ PushLossyPush(1)

SeqSpec == RecordInit /\ [][SeqNext]_vars

\* push_lossy on a vector of its own, as in correct_push_lossy.
PushInit ==
    /\ StatsNew(0)
    /\ window_size = 0
    /\ hash = [p \in Peers |-> 0]
    /\ capacity \in 0..MaxWindow
    /\ samples = <<>>

PushLossyCall ==
    \E element \in 1..(MaxDur + 1) :
        /\ Len(pushed) < MaxPushes
        /\ vector' = push_lossy(vector, element, capacity).vec
        /\ pushed' = Append(pushed, element)
        /\ UNCHANGED <<capacity, samples, measured, reported>>
        /\ UNCHANGED statsVars

PushSpec == PushInit /\ [][PushLossyCall]_vars

\* The statistics functions on a sample sequence of their own, as in
\* correct_durations_mean and correct_durations_std_dev.
SeqsUpTo(S, n) == UNION {[1..k -> S] : k \in 0..n}
SampleValues == (0..MaxDur) \cup {Second, 3 * Second, 5 * Second}

StatInit ==
    /\ StatsNew(0)
    /\ window_size = 0
    /\ hash = [p \in Peers |-> 0]
    /\ capacity = 0
    /\ samples \in SeqsUpTo(SampleValues, MaxSamples)

Measure ==
    /\ ~measured.some
    /\ measured' = Some([mean |-> durations_mean(samples),
                         std_dev |-> durations_std_dev(samples),
                         error |-> durations_error_with_ci(samples)])
    /\ UNCHANGED <<vector, capacity, pushed, samples, reported>>
    /\ UNCHANGED statsVars

StatSpec == StatInit /\ [][Measure]_vars

\* A thread with fairness: once in a call, a thread goes on; the bucket locks
\* (parking_lot) are fair, so a thread that can take a lock again and again
\* gets it.
Continue(t) ==
    \/ InsertNew(t)
    \/ InsertNewAssertFails(t)
    \/ GetMut(t)
    \/ DivideByZero(t)
    \/ PushLossyRemove(t)
    \/ PushLossyRemovePanics(t)
    \/ PushLossyPush(t)
FmtContinue == CloneBucket \/ FmtWrite \/ FmtReturn

FairSpec ==
    /\ Init /\ [][Next]_vars
    /\ \A t \in Threads : SF_vars(Continue(t))
    /\ SF_vars(FmtContinue)

\* ------------------------------------------------------------------ claims
InCall == {"insert_new", "get_mut", "locked", "evicted"}
Panicked == {"panicked_insert_new", "panicked_division", "panicked_remove"}
Quiet == \A t \in Threads : pc[t] \notin InCall
Recorded(m) == {p \in Peers : started[m][p] > 0}
LastN(s, n) == SubSeq(s, Len(s) - n + 1, Len(s))

\* C1: after every push_lossy the vector is no longer than its capacity and
\* holds exactly the last min(pushes, capacity) elements pushed, oldest first.
C1_LastPushedInOrder ==
    /\ Len(vector) <= capacity
    /\ vector = LastN(pushed, Min(Len(pushed), capacity))

\* The test correct_push_lossy: capacity 2, pushes 1, 2, 3 give [2, 3].
C1_Witness == capacity = 2 /\ pushed = <<1, 2, 3>> /\ vector = <<2, 3>>

\* C2: whatever the race between first records for a peer, once the calls are
\* over the map holds one entry per recorded peer, len() counts the recorded
\* peers, and no call has failed in insert_new.
C2_OneEntryPerPeer ==
    (window_size >= 1 /\ Quiet) =>
        \A m \in Maps :
            /\ \A p \in Recorded(m) : Cardinality(Entries(m, p)) = 1
            /\ len[m] = Cardinality(Recorded(m))
            /\ \A t \in Threads : pc[t] # "panicked_insert_new"

\* C3: once all add_ping calls are over, a peer's buffer holds
\* min(calls for the peer, window_size) samples, each one a sample some call
\* passed for that peer (no sample lost, none corrupted).
C3_NoPingLost ==
    (window_size >= 1 /\ Quiet) =>
        \A p \in Recorded("pings_to_peers") :
            /\ get("pings_to_peers", p).some
            /\ Len(get("pings_to_peers", p).value)
                  = Min(started["pings_to_peers"][p], window_size)
            /\ \A i \in 1..Len(get("pings_to_peers", p).value) :
                  get("pings_to_peers", p).value[i] \in sent["pings_to_peers"][p]

\* C4: with window_size = 0 no call ends in an error and every buffer stays
\* empty.
C4_ZeroWindowDiscards ==
    window_size = 0 =>
        /\ \A t \in Threads : pc[t] \notin Panicked
        /\ \A m \in Maps : \A i \in Slots : maps[m][i].val = <<>>

\* C5: a call of add_transmission with n_bytes = 0 changes neither map and
\* does not reach the division.
C5_ZeroBytesRejected ==
    [][\A t \in Threads :
          (window_size >= 1 /\ pc[t] \in InCall
              /\ arg[t].map = "transmissions_rates"
              /\ arg[t].n_bytes = 0 /\ pc'[t] # pc[t])
          => (maps' = maps /\ len' = len /\ pc'[t] # "panicked_division")]_vars

\* C6: no buffer a report has cloned was read between the remove and the push
\* of a push_lossy, and none is longer than window_size.
C6_NoTornBuffer ==
    \A m \in Maps : \A i \in 1..Len(snap[m]) :
        /\ ~snap[m][i].torn
        /\ Len(snap[m][i].durations) <= window_size

\* The clone waits at a bucket that a push_lossy has emptied of its oldest
\* sample and not yet refilled, with entries already cloned.
C6_Witness ==
    /\ rpc \in {"clone_pings", "clone_transmissions"}
    /\ MidPush(MapOf(rpc), rpos)
    /\ \E m \in Maps : snap[m] # <<>>

SectionOf(m) == IF m = "pings_to_peers" THEN "ping" ELSE "transmission"
Section(m) ==
    IF m = "pings_to_peers" THEN output.value.ping_by_peer
    ELSE output.value.transmission_rate_by_peer
HasLine(m, p, kind) ==
    \E i \in 1..Len(Section(m)) : Section(m)[i].peer = p /\ Section(m)[i].kind = kind
Other(m) == IF m = "pings_to_peers" THEN "transmissions_rates" ELSE "pings_to_peers"

\* C7 as stated: in a report, a peer that has a line in one section and no
\* sample recorded for the other metric has a 'no data' line, and no numeric
\* line, in the other section.
C7_NoDataLineForUnrecorded ==
    output.some =>
        \A m \in Maps : \A p \in Peers :
            ((HasLine(m, p, "numeric") \/ HasLine(m, p, "nodata"))
                /\ started[Other(m)][p] = 0)
            => (HasLine(Other(m), p, "nodata") /\ ~HasLine(Other(m), p, "numeric"))

\* C7 as amended: a section has one piece per cloned entry, in order, 'no data'
\* exactly when the entry's buffer is empty; a peer never recorded for a metric
\* has no piece at all in that metric's section.
C7_NoDataLineForEmptyEntry ==
    output.some =>
        \A m \in Maps :
            /\ Len(Section(m)) = Len(snap[m])
            /\ \A i \in 1..Len(snap[m]) :
                  /\ Section(m)[i].peer = snap[m][i].peer
                  /\ Section(m)[i].section = SectionOf(m)
                  /\ Section(m)[i].kind =
                        IF snap[m][i].durations = <<>> THEN "nodata" ELSE "numeric"
            /\ \A p \in Peers :
                  started[m][p] = 0
                  => (~HasLine(m, p, "nodata") /\ ~HasLine(m, p, "numeric"))

\* A report with a 'no data' piece and a numeric piece for pings, of peers
\* never recorded for transmissions.
C7_Witness ==
    /\ output.some
    /\ \E p \in Peers : HasLine("pings_to_peers", p, "nodata")
                          /\ started["transmissions_rates"][p] = 0
    /\ \E p \in Peers : HasLine("pings_to_peers", p, "numeric")
                          /\ started["transmissions_rates"][p] = 0

\* C8: after calls that follow one another, with window_size >= 1 and
\* n_bytes > 0, each map has one entry per recorded peer, len() is the number
\* of recorded peers, and a peer's buffer holds min(its records, window_size)
\* samples.
C8_SequentialCounts ==
    (window_size >= 1 /\ \A t \in Threads : pc[t] = "idle") =>
        \A m \in Maps :
            /\ len[m] = Cardinality(Recorded(m))
            /\ Keys(m) = Recorded(m)
            /\ \A p \in Recorded(m) :
                  /\ Cardinality(Entries(m, p)) = 1
                  /\ get(m, p).some
                  /\ Len(get(m, p).value) = Min(started[m][p], window_size)

\* The test correctly_added_pings with a window that the third ping overflows.
C8_Witness ==
    /\ window_size = 1
    /\ \A t \in Threads : pc[t] = "idle"
    /\ started["pings_to_peers"]["2"] = 2
    /\ started["pings_to_peers"]["3"] = 1
    /\ len["pings_to_peers"] = 2

\* C9: a bucket that holds a peer's entry holds that peer's entry ever after.
C9_EntryNeverRemoved ==
    [][\A m \in Maps : \A i \in Slots :
          maps[m][i].occupied
          => (maps'[m][i].occupied /\ maps'[m][i].key = maps[m][i].key)]_vars

\* A sample is being evicted from an entry while a report is out and another
\* entry exists.
C9_Witness ==
    /\ \E t \in Threads : pc[t] = "evicted"
    /\ rpc = "done"
    /\ \E m \in Maps : Cardinality({i \in Slots : maps[m][i].occupied}) >= 2

\* C10: with window_size >= 1 and n_bytes > 0, every call in progress
\* completes, and so does every report.
C10_EveryCallCompletes ==
    /\ \A t \in Threads :
          (pc[t] \in InCall /\ window_size >= 1 /\ CanPush(t)) ~> (pc[t] = "idle")
    /\ (rpc # "idle") ~> (rpc = "idle")


\* Thread u holds the write guard of an entry of map m.
Holds(u, m) == pc[u] \in {"locked", "evicted"} /\ arg[u].map = m
\* Thread u holds the write guard of an entry of map m for a peer other than p.
HoldsOther(u, m, p) == Holds(u, m) /\ arg[u].peer_id # p
\* The buckets the next step of thread t's call walks.
StepPath(t) ==
    IF pc[t] = "insert_new"
    THEN FreePath(arg[t].map, arg[t].peer_id)
    ELSE IF pc[t] = "get_mut" THEN ScanPath(arg[t].map, arg[t].peer_id) ELSE {}
\* Some other thread holds another peer's guard in map m, and no guarded
\* bucket of m lies on the given probe sequence.
OffPath(t, m, p, path) ==
    /\ \E u \in Threads \ {t} : HoldsOther(u, m, p)
    /\ \A u \in Threads \ {t} : Holds(u, m) => slot[u] \notin path

Measured == measured.some
Range(seq) == {seq[i] : i \in 1..Len(seq)}
Smallest(seq) == CHOOSE x \in Range(seq) : \A y \in Range(seq) : x <= y
Largest(seq) == CHOOSE x \in Range(seq) : \A y \in Range(seq) : y <= x
Cube(n) == n * n * n
\* n^2 times the sum of squared deviations from the exact mean Sum / n.
ScaledSumSqDev(seq) == SumSqDev([i \in 1..Len(seq) |-> Len(seq) * seq[i]], Sum(seq))

\* C12: each of durations_mean, durations_std_dev and durations_error_with_ci
\* returns None exactly when the sample sequence is empty.
C12_NoneIffEmpty ==
    Measured =>
        /\ measured.value.mean.some <=> samples # <<>>
        /\ measured.value.std_dev.some <=> samples # <<>>
        /\ measured.value.error.some <=> samples # <<>>

\* A single sample: all three functions return a value.
C12_Witness ==
    /\ Measured /\ Len(samples) = 1
    /\ measured.value.mean.some
    /\ measured.value.std_dev.some
    /\ measured.value.error.some

\* C13: for a non-empty sequence durations_mean is the sum over the count,
\* truncated to the duration resolution, hence between the smallest and the
\* largest sample; mean([1s, 3s, 5s]) = 3s.
C13_MeanIsTruncatedQuotient ==
    (Measured /\ samples # <<>>) =>
        LET mean == measured.value.mean.value
            n == Len(samples)
        IN /\ n * mean <= Sum(samples)
           /\ Sum(samples) < n * (mean + 1)
           /\ Smallest(samples) <= mean
           /\ mean <= Largest(samples)
           /\ samples = <<Second, 3 * Second, 5 * Second>> => mean = 3 * Second

\* The test correct_durations_mean.
C13_Witness ==
    /\ Measured
    /\ samples = <<Second, 3 * Second, 5 * Second>>
    /\ measured.value.mean = Some(3 * Second)

\* C14: durations_std_dev is the population standard deviation to the
\* duration resolution: with sd the result and n the count, sd^2 * n is the
\* sum of squared deviations from the mean to within one unit of sd, that is
\* (sd - 1)^2 * n < sum < (sd + 1)^2 * n; it is zero for one sample and for
\* equal samples, and within 0.01s of 1.63s for [1s, 3s, 5s].
C14_PopulationStdDev ==
    (Measured /\ samples # <<>>) =>
        LET sd == measured.value.std_dev.value
            n == Len(samples)
        IN /\ sd >= 1 => (sd - 1) * (sd - 1) * Cube(n) < ScaledSumSqDev(samples)
           /\ ScaledSumSqDev(samples) < (sd + 1) * (sd + 1) * Cube(n)
           /\ Cardinality(Range(samples)) = 1 => sd = 0
           /\ samples = <<Second, 3 * Second, 5 * Second>> =>
                 /\ 100 * sd - 163 * Second < Second
                 /\ 163 * Second - 100 * sd < Second

\* The test correct_durations_std_dev, where the divisor n - 1 would give 2s.
C14_Witness ==
    /\ Measured
    /\ samples = <<Second, 3 * Second, 5 * Second>>
    /\ measured.value.std_dev.some
    /\ 100 * measured.value.std_dev.value < 164 * Second
    /\ 100 * measured.value.std_dev.value > 162 * Second


\* C15: in a report, each section has one piece per cloned entry, in order,
\* numeric for an entry with samples and 'no data' for an empty one, every
\* piece ends with a line break, and no peer has two pieces in a section.
C15_OneTerminatedLinePerEntry ==
    output.some =>
        \A m \in Maps :
            /\ Len(Section(m)) = Len(snap[m])
            /\ \A i \in 1..Len(Section(m)) :
                  /\ Section(m)[i].peer = snap[m][i].peer
                  /\ Section(m)[i].kind =
                        (IF snap[m][i].durations = <<>> THEN "nodata" ELSE "numeric")
                  /\ Section(m)[i].newline
            /\ \A i, j \in 1..Len(Section(m)) :
                  Section(m)[i].peer = Section(m)[j].peer => i = j


\* C16: the push that ends a call appends exactly rtt (add_ping, on the ping
\* map) or time / n_bytes (add_transmission, on the transmission map) to the
\* buffer of the call's peer, which then holds at most window_size samples;
\* the oldest sample is removed before it only when window_size are held.
C16_AppendsSample ==
    [][\A t \in Threads :
          LET m == arg[t].map
              i == slot[t]
              value == IF m = "transmissions_rates"
                       THEN arg[t].time \div arg[t].n_bytes
                       ELSE arg[t].time
          IN /\ (pc[t] \in {"locked", "evicted"} /\ pc'[t] = "idle") =>
                   /\ maps[m][i].key = arg[t].peer_id
                   /\ maps'[m][i].val = Append(maps[m][i].val, value)
                   /\ Len(maps'[m][i].val) <= window_size
             /\ (pc[t] = "locked" /\ pc'[t] = "evicted") =>
                   /\ Len(maps[m][i].val) >= window_size
                   /\ maps'[m][i].val = Tail(maps[m][i].val)
      ]_vars

\* add_transmission(p, 1, 2) has recorded 1 / 2 = 0 and add_ping(q, 2) has
\* recorded 2.
C16_Witness ==
    /\ Quiet
    /\ \E i \in Slots : maps["transmissions_rates"][i].val = <<0>>
    /\ \E i \in Slots : maps["pings_to_peers"][i].val = <<2>>


\* Bucket i of map m differs between the two states of a step.
Changed(m, i) == maps'[m][i] # maps[m][i]

\* C17: a step of a call for peer p on one map changes, in both maps, nothing
\* but a bucket of that map that holds p's entry afterwards and held p's entry
\* or nothing before; a step of the report changes neither map.
C17_Frame ==
    [][/\ \A t \in Threads :
              pc'[t] # pc[t] =>
                  \A m \in Maps : \A i \in Slots :
                      Changed(m, i) =>
                          /\ m = arg[t].map
                          /\ maps'[m][i].occupied
                          /\ maps'[m][i].key = arg[t].peer_id
                          /\ maps[m][i].occupied => maps[m][i].key = arg[t].peer_id
       /\ (\A t \in Threads : pc'[t] = pc[t]) => maps' = maps
      ]_vars

\* A ping for one peer and a transmission for the other are recorded, each in
\* its own map, and a report of them is written.
C17_Witness ==
    /\ Quiet
    /\ rpc = "done"
    /\ Keys("pings_to_peers") = {"2"}
    /\ Keys("transmissions_rates") = {"3"}
    /\ get("pings_to_peers", "2").value # <<>>
    /\ get("transmissions_rates", "3").value # <<>>


\* C18: with window_size >= 1 and no call made with n_bytes = 0, whenever no
\* call is in progress every entry of either map holds between 1 and
\* window_size samples.
C18_QuietEntriesHoldSamples ==
    (window_size >= 1 /\ Quiet /\ \A t \in Threads : pc[t] # "panicked_division") =>
        \A m \in Maps : \A i \in Slots :
            maps[m][i].occupied =>
                (1 <= Len(maps[m][i].val) /\ Len(maps[m][i].val) <= window_size)


\* C19: with window_size >= 1, every buffer length a report shows for a peer
\* is at least the longest the report before showed for that peer, and is
\* window_size once that was window_size.
C19_ReportedLengthMonotone ==
    [][(window_size >= 1 /\ rpc = "write" /\ rpc' = "done") =>
          \A m \in Maps : \A p \in Peers : \A length \in Shown(m, p) :
              /\ length >= reported[m][p]
              /\ reported[m][p] = window_size => length = window_size
      ]_vars

====
